---- MODULE Spec2Model ----
(***************************************************************************)
(* Proof-of-work blockchain replicas with Merkle roots and a majority      *)
(* vote (src/exam.py), and the single-chain demonstration with a findings  *)
(* list (src/merkle9chain.py).                                             *)
(*                                                                         *)
(* Strings are Python strings.  SHA-256 is modelled symbolically: the      *)
(* digest of a string s is the string "sha256(s)", so equal inputs give    *)
(* equal digests and different inputs give different digests (no           *)
(* collisions).  Whether a digest starts with the difficulty prefix is     *)
(* not computable from the symbolic digest; it is decided once per digest, *)
(* nondeterministically, and remembered in the variable startswith.        *)
(***************************************************************************)
EXTENDS Integers, Sequences, FiniteSets, TLC

VARIABLES
    nodes,       \* Network.nodes: the list of Blockchain replicas
    built,       \* TRUE once a Network object exists
    net_difficulty, \* Network.difficulty
    clock,       \* the next value time.time() returns
    startswith,  \* digest -> BOOLEAN: hash.startswith("0" * difficulty)
    call,        \* the last call: its name, arguments, the replicas before
                 \* it, the value returned and the exception raised
    calls        \* how many calls have changed the replicas since construction

vars == <<nodes, built, net_difficulty, clock, startswith, call, calls>>

----------------------------------------------------------------------------
(* Bounds of the model *)

MaxNodes == 5        \* node_count is drawn from -1..MaxNodes
MaxDifficulty == 1   \* difficulty is drawn from 0..MaxDifficulty
MaxChain == 3        \* add_block is not called on a chain of this length
NodeBlocks == 2      \* blocks appended to each replica by Network.__init__
                     \* (range(1, 9) in the source; the validation of a
                     \* chain only ever relates neighbouring blocks)
MaxCalls == 2        \* calls that change the replicas, per behaviour
MaxHashes == 5       \* longest list handed to calculate_merkle_root alone
DigestLen == 2       \* characters of a digest (64 for sha256().hexdigest())
MaxNonce == 2        \* failed attempts of one mining run, step by step

----------------------------------------------------------------------------
(* Python values *)

NoneVal == "None"
GenesisData == "Genesis Block"
GenesisPrev == "0"
TamperMarker == "FALSIFIED DATA"

NodeData(j) == "Donnee #" \o ToString(j)

Last(s) == s[Len(s)]

\* Python's list indexing: seq[idx] for idx in -len..len-1, IndexError otherwise.
InRange(idx, len) == idx >= -len /\ idx < len
Pos(idx, len) == (IF idx < 0 THEN idx + len ELSE idx) + 1

----------------------------------------------------------------------------
(* Hasher and Block *)

Hasher(s) == "sha256(" \o s \o ")"

calculate_hash(b) ==
    Hasher(ToString(b.index) \o ToString(b.timestamp) \o b.data
           \o b.previous_hash \o ToString(b.nonce))

\* hash.startswith("0" * difficulty); the prefix is "" for difficulty <= 0.
HasPrefix(h, d, orc) == IF d <= 0 THEN TRUE ELSE orc[h]

RECURSIVE mine_block(_, _, _)
mine_block(b, d, orc) ==
    LET hash_val == calculate_hash(b)
    IN  IF HasPrefix(hash_val, d, orc)
        THEN [b EXCEPT !.hash = hash_val]
        ELSE mine_block([b EXCEPT !.nonce = @ + 1], d, orc)

\* What mining learns about the digests it tries when it fails n times:
\* the digests at nonce 0..n-1 lack the prefix, the one at nonce n has it.
Probes(b, n) ==
    [h \in {calculate_hash([b EXCEPT !.nonce = k]) : k \in 0..n}
        |-> h = calculate_hash([b EXCEPT !.nonce = n])]

\* Block.__init__; ts is the value time.time() returns, n the number of
\* digests without the prefix that the search meets first.
Block(index, data, previous_hash, d, ts, n) ==
    LET b0 == [index |-> index, timestamp |-> ts, data |-> data,
               previous_hash |-> previous_hash, nonce |-> 0,
               difficulty |-> d, hash |-> NoneVal]
    IN  mine_block(b0, d, Probes(b0, n))

\* The attempts that produced a mined block, as Probes gives them.
ProbesOf(b) ==
    [h \in {calculate_hash([b EXCEPT !.nonce = k]) : k \in 0..b.nonce}
        |-> h = calculate_hash(b)]

\* The number of failed attempts of a mining run, as the calls below draw it:
\* none when the prefix is empty, one otherwise (the digests are symbolic, so
\* a longer search only renames the nonce).
Failures(d) == IF d <= 0 THEN {0} ELSE {1}

----------------------------------------------------------------------------
(* MerkleTree *)

\* next_level that concatenates each pair in the reverse order.
RECURSIVE next_level_swapped(_)
next_level_swapped(level) ==
    IF level = <<>> THEN <<>>
    ELSE <<Hasher(level[2] \o level[1])>>
         \o next_level_swapped(SubSeq(level, 3, Len(level)))

RECURSIVE next_level(_)
next_level(level) ==
    IF level = <<>> THEN <<>>
    ELSE <<Hasher(level[1] \o level[2])>> \o next_level(SubSeq(level, 3, Len(level)))

RECURSIVE calculate_merkle_root(_)
calculate_merkle_root(hashes) ==
    IF hashes = <<>> THEN NoneVal
    ELSE IF Len(hashes) = 1 THEN hashes[1]
    ELSE LET current_level == IF Len(hashes) % 2 # 0
                              THEN Append(hashes, Last(hashes))
                              ELSE hashes
         IN  calculate_merkle_root(next_level(current_level))

\* A call of calculate_merkle_root as its caller sees it: the value returned
\* and the caller's list after the call.  The loop works on the copy
\* hashes[:], so nothing is appended to the list of the caller.
calculate_merkle_root_run(hashes) ==
    [ret |-> calculate_merkle_root(hashes), hashes |-> hashes]

----------------------------------------------------------------------------
(* Blockchain (src/exam.py) *)

Hashes(bc) == [i \in 1..Len(bc.chain) |-> bc.chain[i].hash]

create_genesis_block(d, ts, n) == Block(0, GenesisData, GenesisPrev, d, ts, n)

\* Blockchain.__init__ that caches the root of the genesis block at once.
Blockchain_rooted(d, ts, n) ==
    [difficulty |-> d, chain |-> <<create_genesis_block(d, ts, n)>>,
     merkle_root |-> create_genesis_block(d, ts, n).hash]

Blockchain(d, ts, n) ==
    [difficulty |-> d, chain |-> <<create_genesis_block(d, ts, n)>>,
     merkle_root |-> NoneVal]

\* add_block that links the new block to the first block of the chain.
add_block_first(bc, data, ts, n) ==
    LET prev_hash == bc.chain[1].hash
        new_block == Block(Len(bc.chain), data, prev_hash, bc.difficulty, ts, n)
    IN  [bc EXCEPT !.chain = Append(@, new_block)]

\* add_block that also refreshes the cached merkle_root.
add_block_rooted(bc, data, ts, n) ==
    LET prev_hash == Last(bc.chain).hash
        new_block == Block(Len(bc.chain), data, prev_hash, bc.difficulty, ts, n)
        chain == Append(bc.chain, new_block)
    IN  [bc EXCEPT !.chain = chain,
                   !.merkle_root =
                       calculate_merkle_root([i \in 1..Len(chain) |-> chain[i].hash])]

add_block(bc, data, ts, n) ==
    LET prev_hash == Last(bc.chain).hash
        new_block == Block(Len(bc.chain), data, prev_hash, bc.difficulty, ts, n)
    IN  [bc EXCEPT !.chain = Append(@, new_block)]

compute_merkle_root(bc) ==
    [bc EXCEPT !.merkle_root = calculate_merkle_root(Hashes(bc))]

\* The per-block loop of is_chain_valid: the first finding <<index, kind>>
\* from Python index i on, as a list of at most one element.
RECURSIVE check_blocks(_, _, _)
check_blocks(bc, i, orc) ==
    IF i >= Len(bc.chain) THEN <<>>
    ELSE LET current == bc.chain[i + 1]
             prev == bc.chain[i]
         IN  IF current.hash # calculate_hash(current)
                 THEN <<(<<current.index, "hash">>)>>
             ELSE IF current.previous_hash # prev.hash
                 THEN <<(<<current.index, "link">>)>>
             ELSE IF ~HasPrefix(current.hash, bc.difficulty, orc)
                 THEN <<(<<current.index, "prefix">>)>>
             ELSE check_blocks(bc, i + 1, orc)

\* is_chain_valid: the value returned and what it printed.
is_chain_valid_report(bc, orc) ==
    LET found == check_blocks(bc, 1, orc)
        recalculated == calculate_merkle_root(Hashes(bc))
    IN  IF found # <<>> THEN [valid |-> FALSE, printed |-> found]
        ELSE IF recalculated # bc.merkle_root
            THEN [valid |-> FALSE, printed |-> <<(<<-1, "merkle">>)>>]
        ELSE [valid |-> TRUE, printed |-> <<>>]

is_chain_valid(bc, orc) == is_chain_valid_report(bc, orc).valid

----------------------------------------------------------------------------
(* Network (src/exam.py) *)

RECURSIVE add_node_blocks(_, _, _, _)
add_node_blocks(bc, j, ts, n) ==
    IF j > NodeBlocks THEN bc
    ELSE add_node_blocks(add_block(bc, NodeData(j), ts + j, n), j + 1, ts, n)

\* One pass of the loop of Network.__init__: a chain of the genesis block and
\* the blocks "Donnee #1".., its Merkle root computed.  The blocks read the
\* clock one after the other, from ts on.
build_node(d, ts, n) ==
    compute_merkle_root(add_node_blocks(Blockchain(d, ts, n), 1, ts, n))

NodeSpan == NodeBlocks + 1   \* clock readings one replica takes

\* Network.__init__ past its assertion.
Network(node_count, d, ts, n) ==
    [i \in 1..node_count |-> build_node(d, ts + (i - 1) * NodeSpan, n)]

\* The assertion of Network.__init__.
NodeCountAccepted(node_count) == node_count % 2 = 1

validate_all(ns, orc) == [i \in 1..Len(ns) |-> is_chain_valid(ns[i], orc)]

RECURSIVE count_valid(_, _, _)
count_valid(ns, i, orc) ==
    IF i > Len(ns) THEN 0
    ELSE (IF is_chain_valid(ns[i], orc) THEN 1 ELSE 0) + count_valid(ns, i + 1, orc)

\* majority_vote with the comparison weakened to >=.
majority_vote_ge(ns, orc) ==
    LET valides == count_valid(ns, 1, orc)
    IN  valides >= Len(ns) \div 2

majority_vote(ns, orc) ==
    LET valides == count_valid(ns, 1, orc)
    IN  valides > Len(ns) \div 2

\* falsify that overwrites the data and leaves the stored hash.
falsify_data_only(b) == [b EXCEPT !.data = TamperMarker]

\* The two assignments of corrupt_nodes to one block.
falsify(b) ==
    LET b1 == [b EXCEPT !.data = TamperMarker]
    IN  [b1 EXCEPT !.hash = calculate_hash(b1)]

\* corrupt_blocks that repairs the link of the successor: the previous_hash
\* of the next block is set to the rehashed digest.
RECURSIVE corrupt_blocks_relink(_, _)
corrupt_blocks_relink(bc, blocks_to_corrupt) ==
    IF blocks_to_corrupt = <<>> THEN bc
    ELSE LET bidx == Head(blocks_to_corrupt)
             c1 == [bc.chain EXCEPT ![bidx + 1] = falsify(@)]
             bc1 == IF 0 <= bidx /\ bidx < Len(bc.chain)
                    THEN [bc EXCEPT !.chain =
                            IF bidx + 2 <= Len(c1)
                            THEN [c1 EXCEPT ![bidx + 2].previous_hash = c1[bidx + 1].hash]
                            ELSE c1]
                    ELSE bc
         IN  corrupt_blocks_relink(bc1, Tail(blocks_to_corrupt))

RECURSIVE corrupt_blocks(_, _)
corrupt_blocks(bc, blocks_to_corrupt) ==
    IF blocks_to_corrupt = <<>> THEN bc
    ELSE LET bidx == Head(blocks_to_corrupt)
             bc1 == IF 0 <= bidx /\ bidx < Len(bc.chain)
                    THEN [bc EXCEPT !.chain[bidx + 1] = falsify(@)]
                    ELSE bc
         IN  corrupt_blocks(bc1, Tail(blocks_to_corrupt))

\* corrupt_nodes without the closing compute_merkle_root().
RECURSIVE corrupt_nodes_stale(_, _, _)
corrupt_nodes_stale(ns, indices, blocks_to_corrupt) ==
    IF indices = <<>> THEN [nodes |-> ns, raised |-> "none"]
    ELSE IF ~InRange(Head(indices), Len(ns))
        THEN [nodes |-> ns, raised |-> "IndexError"]
    ELSE corrupt_nodes_stale(
             [ns EXCEPT ![Pos(Head(indices), Len(ns))] =
                 corrupt_blocks(@, blocks_to_corrupt)],
             Tail(indices), blocks_to_corrupt)

\* corrupt_nodes on a network whose replicas are one and the same Blockchain
\* object: what is done to the replica named is seen at every position.
RECURSIVE corrupt_nodes_shared(_, _, _)
corrupt_nodes_shared(ns, indices, blocks_to_corrupt) ==
    IF indices = <<>> THEN [nodes |-> ns, raised |-> "none"]
    ELSE IF ~InRange(Head(indices), Len(ns))
        THEN [nodes |-> ns, raised |-> "IndexError"]
    ELSE corrupt_nodes_shared(
             [i \in 1..Len(ns) |->
                 compute_merkle_root(corrupt_blocks(ns[i], blocks_to_corrupt))],
             Tail(indices), blocks_to_corrupt)

\* corrupt_nodes: the replicas it leaves and the exception it ends with.
RECURSIVE corrupt_nodes(_, _, _)
corrupt_nodes(ns, indices, blocks_to_corrupt) ==
    IF indices = <<>> THEN [nodes |-> ns, raised |-> "none"]
    ELSE LET idx == Head(indices)
         IN  IF ~InRange(idx, Len(ns))
             THEN [nodes |-> ns, raised |-> "IndexError"]
             ELSE corrupt_nodes(
                      [ns EXCEPT ![Pos(idx, Len(ns))] =
                          compute_merkle_root(corrupt_blocks(@, blocks_to_corrupt))],
                      Tail(indices), blocks_to_corrupt)

AttackBlocks == [k \in 1..8 |-> k]    \* list(range(1,9))

RECURSIVE attack_from(_, _, _)
attack_from(ns, idx, half) ==
    IF idx > half THEN [nodes |-> ns, raised |-> "none"]
    ELSE LET r == corrupt_nodes(ns, <<idx>>, AttackBlocks)
         IN  IF r.raised # "none" THEN r ELSE attack_from(r.nodes, idx + 1, half)

\* run_attack_51 that stops one replica short of the bare majority.
run_attack_51_half(ns) == attack_from(ns, 0, Len(ns) \div 2 - 1)

run_attack_51(ns) == attack_from(ns, 0, Len(ns) \div 2)

----------------------------------------------------------------------------
(* The digests a state holds, and what is known of their prefix *)

BlocksOf(ns) ==
    UNION {{ns[i].chain[k] : k \in 1..Len(ns[i].chain)} : i \in 1..Len(ns)}

\* What the mining of a set of freshly mined blocks learns.
Learned(blocks) ==
    [h \in UNION {DOMAIN ProbesOf(b) : b \in blocks}
        |-> \E b \in blocks : h = calculate_hash(b)]

\* The stored hashes of ns whose prefix has not been looked at yet.
Unprobed(ns, orc) == {b.hash : b \in BlocksOf(ns)} \ DOMAIN orc

\* The prefix outcomes of the digests hs that one call computes for the first
\* time: all have the prefix at difficulty <= 0; otherwise the digests of one
\* call share the outcome drawn (blocks that differ in it are falsified by
\* separate calls).
Outcomes(hs, d) ==
    IF d <= 0 THEN {[h \in hs |-> TRUE]} ELSE {[h \in hs |-> v] : v \in BOOLEAN}

NoCall == [op |-> "none", args |-> <<>>, pre |-> <<>>, ret |-> NoneVal, raised |-> "none"]

Called(op, args, pre, ret, raised) ==
    [op |-> op, args |-> args, pre |-> pre, ret |-> ret, raised |-> raised]

----------------------------------------------------------------------------
(* Inputs *)

\* Data handed to add_block: a payload, and the tamper marker itself.
DataSet == {"tx", TamperMarker}

\* Replica index lists handed to corrupt_nodes on a network of N replicas:
\* one replica, two replicas, a negative position, and a position past the
\* end that is met after a good one.
NetIndexLists(N) == {<<0>>, <<1>>, <<0, 1>>, <<-1>>, <<0, N>>}

\* Block index lists handed to corrupt_nodes on a network: one block, and
\* every block but the genesis block.
NetBlockLists == {<<1>>, AttackBlocks}

\* The same for one chain: every single position (one below and one above
\* those a chain can have), the empty list, all blocks but the genesis
\* block, and lists that mix positions in and out of range.
ChainBlockLists ==
    {<<>>, AttackBlocks, <<-1, 1>>, <<0, MaxChain>>, <<1, MaxChain>>}
    \cup {<<k>> : k \in -1..MaxChain}

----------------------------------------------------------------------------
(* The calls on a Network (src/exam.py) *)

NetworkInit ==
    /\ ~built
    /\ \E node_count \in -1..MaxNodes, d \in 0..MaxDifficulty :
         IF NodeCountAccepted(node_count)
         THEN \E n \in Failures(d) :
                LET ns == Network(node_count, d, clock, n)
                IN  /\ nodes' = ns
                    /\ built' = TRUE
                    /\ net_difficulty' = d
                    /\ clock' = clock + Len(ns) * NodeSpan
                    /\ startswith' = Learned(BlocksOf(ns)) @@ startswith
                    /\ call' = Called("Network", <<node_count, d>>, nodes, NoneVal, "none")
         ELSE /\ call' = Called("Network", <<node_count, d>>, nodes, NoneVal,
                                "AssertionError")
              /\ UNCHANGED <<nodes, built, net_difficulty, clock, startswith>>
    /\ UNCHANGED calls

CorruptNodes(indices, blocks_to_corrupt) ==
    /\ built
    /\ calls < MaxCalls
    /\ LET r == corrupt_nodes(nodes, indices, blocks_to_corrupt)
       IN  /\ nodes' = r.nodes
           /\ \E f \in Outcomes(Unprobed(r.nodes, startswith), net_difficulty) :
                startswith' = f @@ startswith
           /\ call' = Called("corrupt_nodes", <<indices, blocks_to_corrupt>>, nodes,
                             NoneVal, r.raised)
    /\ calls' = calls + 1
    /\ UNCHANGED <<built, net_difficulty, clock>>

RunAttack51 ==
    /\ built
    /\ calls < MaxCalls
    /\ LET r == run_attack_51(nodes)
       IN  /\ nodes' = r.nodes
           /\ \E f \in Outcomes(Unprobed(r.nodes, startswith), net_difficulty) :
                startswith' = f @@ startswith
           /\ call' = Called("run_attack_51", <<>>, nodes, NoneVal, r.raised)
    /\ calls' = calls + 1
    /\ UNCHANGED <<built, net_difficulty, clock>>

ValidateAll ==
    /\ built
    /\ call' = Called("validate_all", <<>>, nodes, validate_all(nodes, startswith), "none")
    /\ UNCHANGED <<nodes, built, net_difficulty, clock, startswith, calls>>

MajorityVote ==
    /\ built
    /\ call' = Called("majority_vote", <<>>, nodes, majority_vote(nodes, startswith), "none")
    /\ UNCHANGED <<nodes, built, net_difficulty, clock, startswith, calls>>

\* net.nodes[idx] = copy.deepcopy(Network.node_template(net.difficulty)):
\* the class Network has no attribute node_template, so the right-hand side
\* raises AttributeError before anything is assigned.
ReplaceNode(idx) ==
    /\ built
    /\ InRange(idx, Len(nodes))
    /\ call' = Called("replace", <<idx>>, nodes, NoneVal, "AttributeError")
    /\ UNCHANGED <<nodes, built, net_difficulty, clock, startswith, calls>>

Init ==
    /\ nodes = <<>>
    /\ built = FALSE
    /\ net_difficulty = 0
    /\ clock = 0
    /\ startswith = <<>>
    /\ call = NoCall
    /\ calls = 0

Next ==
    \/ NetworkInit
    \/ \E indices \in NetIndexLists(Len(nodes)), blocks \in NetBlockLists :
         CorruptNodes(indices, blocks)
    \/ RunAttack51
    \/ ValidateAll
    \/ MajorityVote
    \/ \E idx \in 0..(Len(nodes) - 1) : ReplaceNode(idx)

Spec == Init /\ [][Next]_vars

----------------------------------------------------------------------------
(* One Blockchain of src/exam.py, held as the only replica of a network *)

AddBlock(idx, data) ==
    /\ built
    /\ InRange(idx, Len(nodes))
    /\ Len(nodes[idx + 1].chain) < MaxChain
    /\ \E n \in Failures(nodes[idx + 1].difficulty) :
         LET bc == add_block(nodes[idx + 1], data, clock, n)
         IN  /\ nodes' = [nodes EXCEPT ![idx + 1] = bc]
             /\ startswith' = Learned({Last(bc.chain)}) @@ startswith
    /\ clock' = clock + 1
    /\ call' = Called("add_block", <<idx, data>>, nodes, NoneVal, "none")
    /\ UNCHANGED <<built, net_difficulty, calls>>

ComputeMerkleRoot(idx) ==
    /\ built
    /\ InRange(idx, Len(nodes))
    /\ nodes' = [nodes EXCEPT ![idx + 1] = compute_merkle_root(@)]
    /\ call' = Called("compute_merkle_root", <<idx>>, nodes,
                      compute_merkle_root(nodes[idx + 1]).merkle_root, "none")
    /\ UNCHANGED <<built, net_difficulty, clock, startswith, calls>>

\* is_chain_valid that silently refreshes the cached merkle_root.
IsChainValid_refresh(idx) ==
    /\ built
    /\ InRange(idx, Len(nodes))
    /\ nodes' = [nodes EXCEPT ![idx + 1] = compute_merkle_root(@)]
    /\ call' = Called("is_chain_valid", <<idx>>, nodes,
                      is_chain_valid_report(nodes[idx + 1], startswith), "none")
    /\ UNCHANGED <<built, net_difficulty, clock, startswith, calls>>

IsChainValid(idx) ==
    /\ built
    /\ InRange(idx, Len(nodes))
    /\ call' = Called("is_chain_valid", <<idx>>, nodes,
                      is_chain_valid_report(nodes[idx + 1], startswith), "none")
    /\ UNCHANGED <<nodes, built, net_difficulty, clock, startswith, calls>>

InitChain ==
    \E d \in 0..MaxDifficulty : \E n \in Failures(d) :
        LET bc == Blockchain(d, 0, n)
        IN  /\ nodes = <<bc>>
            /\ built = TRUE
            /\ net_difficulty = d
            /\ clock = 1
            /\ startswith = Learned({bc.chain[1]})
            /\ call = Called("Blockchain", <<d>>, <<>>, NoneVal, "none")
            /\ calls = 0

NextChain ==
    \/ \E data \in DataSet : AddBlock(0, data)
    \/ ComputeMerkleRoot(0)
    \/ \E blocks \in ChainBlockLists : CorruptNodes(<<0>>, blocks)
    \/ IsChainValid(0)
    \/ ValidateAll
    \/ MajorityVote

SpecChain == InitChain /\ [][NextChain]_vars

----------------------------------------------------------------------------
(* src/merkle9chain.py: Block, MerkleTree, Blockchain, falsify_block *)

calculate_hash9(b) ==
    Hasher(ToString(b.index) \o ToString(b.timestamp) \o b.data
           \o b.previous_hash \o ToString(b.nonce))

RECURSIVE mine_block9(_, _, _)
mine_block9(b, d, orc) ==
    LET hash_attempt == calculate_hash9(b)
    IN  IF HasPrefix(hash_attempt, d, orc)
        THEN [b EXCEPT !.hash = hash_attempt]
        ELSE mine_block9([b EXCEPT !.nonce = @ + 1], d, orc)

Block9(index, data, previous_hash, d, ts, n) ==
    LET b0 == [index |-> index, timestamp |-> ts, data |-> data,
               previous_hash |-> previous_hash, nonce |-> 0, hash |-> NoneVal]
    IN  mine_block9(b0, d, Probes(b0, n))

RECURSIVE new_level9(_)
new_level9(hashes) ==
    IF hashes = <<>> THEN <<>>
    ELSE <<Hasher(hashes[1] \o hashes[2])>> \o new_level9(SubSeq(hashes, 3, Len(hashes)))

RECURSIVE calculate_merkle_root9(_)
calculate_merkle_root9(hashes) ==
    IF hashes = <<>> THEN NoneVal
    ELSE IF Len(hashes) = 1 THEN hashes[1]
    ELSE LET padded == IF Len(hashes) % 2 # 0
                       THEN Append(hashes, Last(hashes))
                       ELSE hashes
         IN  calculate_merkle_root9(new_level9(padded))

\* A call of calculate_merkle_root as its caller sees it: the value returned
\* and the caller's list after the call.  The first pass of the loop works on
\* the list of the caller itself and appends to it when its length is odd;
\* from "hashes = new_level" on the name is bound to a new list.
calculate_merkle_root9_run(hashes) ==
    [ret |-> calculate_merkle_root9(hashes),
     hashes |-> IF Len(hashes) > 1 /\ Len(hashes) % 2 # 0
                THEN Append(hashes, Last(hashes))
                ELSE hashes]

Blockchain9(d, ts, n) ==
    [difficulty |-> d, chain |-> <<Block9(0, GenesisData, GenesisPrev, d, ts, n)>>,
     merkle_root |-> NoneVal]

get_latest_block(bc) == Last(bc.chain)

add_block9(bc, data, ts, n) ==
    LET previous_hash == get_latest_block(bc).hash
        block == Block9(Len(bc.chain), data, previous_hash, bc.difficulty, ts, n)
    IN  [bc EXCEPT !.chain = Append(@, block)]

compute_merkle_root9(bc) ==
    [bc EXCEPT !.merkle_root = calculate_merkle_root9(Hashes(bc))]

\* invalid_blocks9 without the previous_hash comparison.
RECURSIVE invalid_blocks9_nolink(_, _, _)
invalid_blocks9_nolink(bc, i, orc) ==
    IF i >= Len(bc.chain) THEN <<>>
    ELSE LET current == bc.chain[i + 1]
         IN  (IF current.hash # calculate_hash9(current)
                 THEN <<(<<i, "hash">>)>> ELSE <<>>)
             \o (IF ~HasPrefix(current.hash, bc.difficulty, orc)
                 THEN <<(<<i, "prefix">>)>> ELSE <<>>)
             \o invalid_blocks9_nolink(bc, i + 1, orc)

\* The list invalid_blocks that the loop of is_chain_valid builds from Python
\* index i on: every finding <<index, kind>>, in the order of the checks.
RECURSIVE invalid_blocks9(_, _, _)
invalid_blocks9(bc, i, orc) ==
    IF i >= Len(bc.chain) THEN <<>>
    ELSE LET current == bc.chain[i + 1]
             previous == bc.chain[i]
         IN  (IF current.hash # calculate_hash9(current)
                 THEN <<(<<i, "hash">>)>> ELSE <<>>)
             \o (IF current.previous_hash # previous.hash
                 THEN <<(<<i, "link">>)>> ELSE <<>>)
             \o (IF ~HasPrefix(current.hash, bc.difficulty, orc)
                 THEN <<(<<i, "prefix">>)>> ELSE <<>>)
             \o invalid_blocks9(bc, i + 1, orc)

\* is_chain_valid: the value returned, the findings printed, and whether
\* "Merkle Root invalide" was printed.
is_chain_valid9(bc, orc) ==
    LET invalid_blocks == invalid_blocks9(bc, 1, orc)
        recalculated_merkle == calculate_merkle_root9(Hashes(bc))
    IN  [valid |-> invalid_blocks = <<>>,
         invalid_blocks |-> invalid_blocks,
         merkle_invalid |-> recalculated_merkle # bc.merkle_root]

\* The two assignments of falsify_block to one block.
falsify9(b) ==
    LET b1 == [b EXCEPT !.data = TamperMarker]
    IN  [b1 EXCEPT !.hash = calculate_hash9(b1)]

\* falsify_block: the chain it leaves and the exception it ends with.
RECURSIVE falsify_block(_, _)
falsify_block(bc, indices_to_falsify) ==
    IF indices_to_falsify = <<>> THEN [bc |-> bc, raised |-> "none"]
    ELSE LET idx == Head(indices_to_falsify)
         IN  IF ~InRange(idx, Len(bc.chain))
             THEN [bc |-> bc, raised |-> "IndexError"]
             ELSE falsify_block(
                      [bc EXCEPT !.chain[Pos(idx, Len(bc.chain))] = falsify9(@)],
                      Tail(indices_to_falsify))

AddBlock9(data) ==
    /\ Len(nodes[1].chain) < MaxChain
    /\ \E n \in Failures(nodes[1].difficulty) :
         LET bc == add_block9(nodes[1], data, clock, n)
         IN  /\ nodes' = <<bc>>
             /\ startswith' = Learned({Last(bc.chain)}) @@ startswith
    /\ clock' = clock + 1
    /\ call' = Called("add_block", <<data>>, nodes, NoneVal, "none")
    /\ UNCHANGED <<built, net_difficulty, calls>>

ComputeMerkleRoot9 ==
    /\ nodes' = <<compute_merkle_root9(nodes[1])>>
    /\ call' = Called("compute_merkle_root", <<>>, nodes,
                      compute_merkle_root9(nodes[1]).merkle_root, "none")
    /\ UNCHANGED <<built, net_difficulty, clock, startswith, calls>>

FalsifyBlock(indices_to_falsify) ==
    /\ calls < MaxCalls
    /\ LET r == falsify_block(nodes[1], indices_to_falsify)
       IN  /\ nodes' = <<r.bc>>
           /\ \E f \in Outcomes(Unprobed(<<r.bc>>, startswith), net_difficulty) :
                startswith' = f @@ startswith
           /\ call' = Called("falsify_block", <<indices_to_falsify>>, nodes,
                             NoneVal, r.raised)
    /\ calls' = calls + 1
    /\ UNCHANGED <<built, net_difficulty, clock>>

IsChainValid9 ==
    /\ call' = Called("is_chain_valid", <<>>, nodes,
                      is_chain_valid9(nodes[1], startswith), "none")
    /\ UNCHANGED <<nodes, built, net_difficulty, clock, startswith, calls>>

InitM9 ==
    \E d \in 0..MaxDifficulty : \E n \in Failures(d) :
        LET bc == Blockchain9(d, 0, n)
        IN  /\ nodes = <<bc>>
            /\ built = FALSE
            /\ net_difficulty = d
            /\ clock = 1
            /\ startswith = Learned({bc.chain[1]})
            /\ call = Called("Blockchain", <<d>>, <<>>, NoneVal, "none")
            /\ calls = 0

NextM9 ==
    \/ \E data \in DataSet : AddBlock9(data)
    \/ ComputeMerkleRoot9
    \/ \E indices \in ChainBlockLists : FalsifyBlock(indices)
    \/ IsChainValid9

SpecM9 == InitM9 /\ [][NextM9]_vars

----------------------------------------------------------------------------
(* Block.mine_block, one pass of its loop at a time *)

\* A digest is DigestLen characters long; what decides the prefix test is
\* the number of "0" characters it starts with, any of 0..DigestLen.
LeadingZeros == 0..DigestLen

\* The prefix test that asks for one "0" more than the difficulty.
StartsWithPrefix_strict(z, d) == z > d

\* hash_val.startswith("0" * difficulty) for a digest that starts with z
\* characters "0"; the prefix is "" for a difficulty below 1.
StartsWithPrefix(z, d) == z >= d

\* Block.__init__ up to the call of mine_block.
NewBlock(index, data, previous_hash, d, ts) ==
    [index |-> index, timestamp |-> ts, data |-> data,
     previous_hash |-> previous_hash, nonce |-> 0,
     difficulty |-> d, hash |-> NoneVal]

\* The loop of mine_block is running: call.ret is the block under
\* construction (and, once the loop has returned, the block constructed).
Mining == call.op = "mine_block"

\* One pass whose digest lacks the prefix: nonce += 1.
MineMiss ==
    /\ Mining
    /\ call.ret.nonce < MaxNonce
    /\ \E z \in LeadingZeros : ~StartsWithPrefix(z, net_difficulty)
    /\ startswith' = (calculate_hash(call.ret) :> FALSE) @@ startswith
    /\ call' = [call EXCEPT !.ret.nonce = @ + 1]
    /\ UNCHANGED <<nodes, built, net_difficulty, clock, calls>>

\* One pass whose digest has the prefix: mine_block returns it, __init__
\* stores it, and the caller (Blockchain.__init__ for block 0, add_block
\* otherwise) puts the block at the end of the chain.
MineHit ==
    /\ Mining
    /\ \E z \in LeadingZeros : StartsWithPrefix(z, net_difficulty)
    /\ LET b == [call.ret EXCEPT !.hash = calculate_hash(call.ret)]
       IN  /\ nodes' = <<[nodes[1] EXCEPT !.chain = Append(@, b)]>>
           /\ startswith' = (b.hash :> TRUE) @@ startswith
           /\ call' = Called(IF b.index = 0 THEN "Blockchain" ELSE "add_block",
                             call.args, call.pre, b, "none")
    /\ UNCHANGED <<built, net_difficulty, clock, calls>>

\* add_block up to the loop of mine_block.
BeginAddBlock(data) ==
    /\ ~Mining
    /\ Len(nodes[1].chain) < MaxChain
    /\ call' = Called("mine_block", <<data>>, nodes,
                      NewBlock(Len(nodes[1].chain), data, Last(nodes[1].chain).hash,
                               net_difficulty, clock), "none")
    /\ clock' = clock + 1
    /\ UNCHANGED <<nodes, built, net_difficulty, startswith, calls>>

\* Blockchain(d) has entered the loop of mine_block for the genesis block.
InitMine ==
    \E d \in 0..(DigestLen + 1) :
        /\ nodes = <<[difficulty |-> d, chain |-> <<>>, merkle_root |-> NoneVal]>>
        /\ built = FALSE
        /\ net_difficulty = d
        /\ clock = 1
        /\ startswith = <<>>
        /\ call = Called("mine_block", <<GenesisData>>, <<>>,
                         NewBlock(0, GenesisData, GenesisPrev, d, 0), "none")
        /\ calls = 0

NextMine ==
    \/ MineMiss
    \/ MineHit
    \/ \E data \in DataSet : BeginAddBlock(data)

\* The thread keeps running the loop, and a digest with the prefix, where the
\* digests have one, is not missed for ever (the digest is taken to be
\* uniformly distributed over its values).
SpecMine == InitMine /\ [][NextMine]_vars /\ WF_vars(MineMiss) /\ WF_vars(MineHit)

----------------------------------------------------------------------------
(* MerkleTree.calculate_merkle_root alone, of both files *)

\* Digests handed in: strings of one length, as hexdigest() gives them.
HashSet == {"h1", "h2", "h3"}

RECURSIVE ListsOf(_)
ListsOf(len) ==
    IF len = 0 THEN {<<>>}
    ELSE {Append(l, h) : l \in ListsOf(len - 1), h \in HashSet}

HashLists == UNION {ListsOf(len) : len \in 0..MaxHashes}

\* The caller holds a list of digests (args); a call records the list as it
\* was before the call (pre), the same list after it (args) and the value
\* returned (ret).
InitMerkle ==
    /\ nodes = <<>>
    /\ built = FALSE
    /\ net_difficulty = 0
    /\ clock = 0
    /\ startswith = <<>>
    /\ \E hashes \in HashLists :
         call = Called("hashes", <<hashes>>, hashes, NoneVal, "none")
    /\ calls = 0

MerkleRoot ==
    /\ call.op = "hashes"
    /\ LET r == calculate_merkle_root_run(call.args[1])
       IN  call' = Called("exam.calculate_merkle_root", <<r.hashes>>, call.args[1],
                          r.ret, "none")
    /\ UNCHANGED <<nodes, built, net_difficulty, clock, startswith, calls>>

MerkleRoot9 ==
    /\ call.op = "hashes"
    /\ LET r == calculate_merkle_root9_run(call.args[1])
       IN  call' = Called("merkle9chain.calculate_merkle_root", <<r.hashes>>,
                          call.args[1], r.ret, "none")
    /\ UNCHANGED <<nodes, built, net_difficulty, clock, startswith, calls>>

NextMerkle ==
    \/ MerkleRoot
    \/ MerkleRoot9

SpecMerkle == InitMerkle /\ [][NextMerkle]_vars

----------------------------------------------------------------------------
(* Properties *)

\* The replicas of ns that validate_all reports valid.
ValidSet(ns, orc) == {i \in 1..Len(ns) : validate_all(ns, orc)[i]}

\* C1: majority_vote() is true exactly when the replicas whose
\* is_chain_valid() is true are strictly more than half of the replicas, in
\* every state of a network, and the value a majority_vote() call returns is
\* that tally of validate_all() in the state of the call.
C1_MajorityIsTally ==
    built =>
        /\ majority_vote(nodes, startswith)
             <=> 2 * Cardinality(ValidSet(nodes, startswith)) > Len(nodes)
        /\ call.op = "majority_vote" =>
             (call.ret <=> 2 * Cardinality(ValidSet(nodes, startswith)) > Len(nodes))

\* A vote that a majority of valid replicas wins although one replica is not
\* valid.
C1_Witness ==
    /\ call.op = "majority_vote"
    /\ call.ret = TRUE
    /\ Cardinality(ValidSet(nodes, startswith)) < Len(nodes)


\* A replica no block of which holds the tamper marker.
Clean(bc) == \A k \in 1..Len(bc.chain) : bc.chain[k].data # TamperMarker

\* A replica whose blocks other than the genesis block all hold the tamper
\* marker with the rehashed digest, the genesis block being untouched.
AllButGenesisFalsified(bc) ==
    /\ Len(bc.chain) > 1
    /\ bc.chain[1].data # TamperMarker
    /\ \A k \in 2..Len(bc.chain) :
         /\ bc.chain[k].data = TamperMarker
         /\ bc.chain[k].hash = calculate_hash(bc.chain[k])

Falsified(ns) == {i \in 1..Len(ns) : AllButGenesisFalsified(ns[i])}

\* C2: in a network of N >= 1 replicas each of which is either as built or has
\* had all its blocks but the genesis block corrupted, majority_vote() is
\* true exactly when at most floor(N/2) replicas are corrupted; the call
\* run_attack_51() corrupts the replicas 0..floor(N/2), leaves the others as
\* they were, and majority_vote() is false after it.
C2_MajorityThreshold ==
    (built /\ Len(nodes) >= 1) =>
        /\ (\A i \in 1..Len(nodes) :
                Clean(nodes[i]) \/ AllButGenesisFalsified(nodes[i]))
             => (majority_vote(nodes, startswith)
                   <=> Cardinality(Falsified(nodes)) <= Len(nodes) \div 2)
        /\ call.op = "run_attack_51" =>
             /\ call.raised = "none"
             /\ \A i \in 1..Len(nodes) :
                  IF i <= Len(nodes) \div 2 + 1
                  THEN AllButGenesisFalsified(nodes[i])
                  ELSE nodes[i] = call.pre[i]
             /\ ~majority_vote(nodes, startswith)

\* run_attack_51() has run on a network of five replicas that were all as
\* built, and has corrupted three of them.
C2_Witness ==
    /\ call.op = "run_attack_51"
    /\ Len(nodes) = 5
    /\ \A i \in 1..5 : Clean(call.pre[i])
    /\ Cardinality(Falsified(nodes)) = 3
    /\ ~majority_vote(nodes, startswith)

\* The positions of a chain whose data a call has changed.
Changed(before, after) ==
    {k \in 1..Len(after.chain) : after.chain[k].data # before.chain[k].data}

\* A corrupt_nodes call that returned and changed the data of a block of the
\* chain, which was valid before the call.
CorruptedValid ==
    /\ call.op = "corrupt_nodes"
    /\ call.raised = "none"
    /\ Len(nodes) = 1
    /\ is_chain_valid(call.pre[1], startswith)
    /\ Changed(call.pre[1], nodes[1]) # {}

\* C3 as claimed: whenever corrupt_nodes changes the data of a block of a
\* valid chain, is_chain_valid() is false afterwards.
C3_AlwaysDetected ==
    CorruptedValid => ~is_chain_valid(nodes[1], startswith)

\* C3, amended: when corrupt_nodes changes the data of a block that has a
\* successor in a valid chain, is_chain_valid() is false afterwards; when it
\* changes the data of the last block only, is_chain_valid() is false exactly
\* when the chain has more than one block and the rehashed digest lacks the
\* difficulty prefix.
C3_DetectedThroughSuccessor ==
    CorruptedValid =>
        LET bc == nodes[1]
            len == Len(bc.chain)
        IN  IF Changed(call.pre[1], bc) # {len}
            THEN ~is_chain_valid(bc, startswith)
            ELSE is_chain_valid(bc, startswith)
                   <=> (len = 1 \/ HasPrefix(bc.chain[len].hash, bc.difficulty, startswith))

\* The data of a block with a successor has been changed in a valid chain.
C3_Witness ==
    /\ CorruptedValid
    /\ Changed(call.pre[1], nodes[1]) # {Len(nodes[1].chain)}


Elems(seq) == {seq[k] : k \in 1..Len(seq)}

\* A falsify_block call that returned and changed the data of exactly one
\* block of the chain, an interior one (it has a predecessor and a
\* successor), the chain having been valid before the call.
OneInteriorFalsified(i) ==
    /\ call.op = "falsify_block"
    /\ call.raised = "none"
    /\ is_chain_valid9(call.pre[1], startswith).valid
    /\ Len(nodes[1].chain) >= 3
    /\ 1 <= i /\ i <= Len(nodes[1].chain) - 2
    /\ Changed(call.pre[1], nodes[1]) = {i + 1}

\* C4 as claimed: after the data of exactly one interior block i of a valid
\* chain is falsified, is_chain_valid() is false and lists a hash or a
\* difficulty-prefix finding at i and a previous-hash finding at i+1.
C4_FindingAtBlockAndNext ==
    \A i \in 1..MaxChain :
        OneInteriorFalsified(i) =>
            LET r == is_chain_valid9(nodes[1], startswith)
            IN  /\ ~r.valid
                /\ <<i, "hash">> \in Elems(r.invalid_blocks)
                     \/ <<i, "prefix">> \in Elems(r.invalid_blocks)
                /\ <<i + 1, "link">> \in Elems(r.invalid_blocks)

\* C4, amended: after the data of exactly one interior block i of a valid
\* chain is falsified, is_chain_valid() is false and lists a previous-hash
\* finding at i+1; at i it lists no hash finding, and a difficulty-prefix
\* finding exactly when the rehashed digest lacks the difficulty prefix.  The
\* is_chain_valid() of exam.py, which stops at its first finding, is false on
\* the same chain and reports that prefix finding at i if there is one and
\* the previous-hash finding at i+1 otherwise.
C4_LinkFindingAtNext ==
    \A i \in 1..MaxChain :
        OneInteriorFalsified(i) =>
            LET bc == nodes[1]
                r == is_chain_valid9(bc, startswith)
                lacks == ~HasPrefix(bc.chain[i + 1].hash, bc.difficulty, startswith)
                e == is_chain_valid_report(bc, startswith)
            IN  /\ ~r.valid
                /\ <<i + 1, "link">> \in Elems(r.invalid_blocks)
                /\ <<i, "hash">> \notin Elems(r.invalid_blocks)
                /\ <<i, "prefix">> \in Elems(r.invalid_blocks) <=> lacks
                /\ ~e.valid
                /\ e.printed = IF lacks THEN <<(<<i, "prefix">>)>>
                                        ELSE <<(<<i + 1, "link">>)>>

\* Exactly one interior block of a valid chain has been falsified.
C4_Witness == \E i \in 1..MaxChain : OneInteriorFalsified(i)


\* C5: is_chain_valid() of merkle9chain.py returns true exactly when it lists
\* no finding and the cached merkle_root equals the root recomputed over the
\* current block hashes.
C5_ValidIffNoFindingAndRoot ==
    LET r == is_chain_valid9(nodes[1], startswith)
    IN  r.valid <=> (r.invalid_blocks = <<>> /\ ~r.merkle_invalid)

\* No per-block finding: the loop of is_chain_valid() of exam.py finds nothing.
NoFinding(bc) == check_blocks(bc, 1, startswith) = <<>>

\* C6: a valid chain has no per-block finding; add_block on a chain without
\* per-block finding appends one block and leaves a chain without per-block
\* finding; compute_merkle_root() on a chain without per-block finding leaves
\* a chain for which is_chain_valid() is true.  Hence k add_block calls on a
\* valid chain followed by compute_merkle_root() give a valid chain.
C6_AppendPreservesValidity ==
    LET bc == nodes[1]
    IN  /\ is_chain_valid(bc, startswith) => NoFinding(bc)
        /\ (call.op = "add_block" /\ NoFinding(call.pre[1])) =>
             /\ Len(bc.chain) = Len(call.pre[1].chain) + 1
             /\ NoFinding(bc)
        /\ (call.op = "compute_merkle_root" /\ NoFinding(call.pre[1])) =>
             is_chain_valid(bc, startswith)

\* compute_merkle_root() has run on a chain of full length whose cached root
\* was that of the genesis block alone, every other block having been
\* appended since; the chain is valid again.
C6_Witness ==
    /\ call.op = "compute_merkle_root"
    /\ NoFinding(call.pre[1])
    /\ Len(nodes[1].chain) = MaxChain
    /\ call.pre[1].merkle_root = nodes[1].chain[1].hash
    /\ is_chain_valid(nodes[1], startswith)

\* C7 as claimed: right after Blockchain.__init__ the chain has no per-block
\* finding, its merkle_root is the hash of its single block, and
\* is_chain_valid() is true.
C7_FreshChainValid ==
    call.op = "Blockchain" =>
        /\ NoFinding(nodes[1])
        /\ nodes[1].merkle_root = nodes[1].chain[1].hash
        /\ is_chain_valid(nodes[1], startswith)

\* C7, amended: right after Blockchain.__init__ the chain has its genesis
\* block only and no per-block finding, its merkle_root is None and
\* is_chain_valid() is false; a compute_merkle_root() call on a chain of one
\* block returns and caches the hash of that block, and is_chain_valid() is
\* true after it.
C7_FreshChainNeedsRoot ==
    LET bc == nodes[1]
    IN  /\ call.op = "Blockchain" =>
             /\ Len(bc.chain) = 1
             /\ NoFinding(bc)
             /\ bc.merkle_root = NoneVal
             /\ ~is_chain_valid(bc, startswith)
        /\ (call.op = "compute_merkle_root" /\ Len(bc.chain) = 1) =>
             /\ bc.merkle_root = bc.chain[1].hash
             /\ call.ret = bc.chain[1].hash
             /\ is_chain_valid(bc, startswith)

\* compute_merkle_root() has run on a chain as Blockchain.__init__ left it.
C7_Witness ==
    /\ call.op = "compute_merkle_root"
    /\ Len(nodes[1].chain) = 1
    /\ call.pre[1].merkle_root = NoneVal
    /\ nodes[1].chain[1].data = GenesisData

\* C8: once a replica has been replaced by a rebuilt one and no other replica
\* is corrupted, validate_all() is all true and majority_vote() is true.
C8_RecoveryRoundTrip ==
    (/\ call.op = "replace"
     /\ \A i \in 1..Len(nodes) :
          i # Pos(call.args[1], Len(nodes)) => Clean(call.pre[i])) =>
        /\ \A i \in 1..Len(nodes) : validate_all(nodes, startswith)[i]
        /\ majority_vote(nodes, startswith)

\* C9: every network that construction produces holds an odd number of
\* replicas, and construction fails for every node_count that is not an odd
\* positive integer.
C9_OddCardinality ==
    /\ built => Len(nodes) % 2 = 1
    /\ call.op = "Network" =>
         (call.raised = "AssertionError"
            <=> ~(call.args[1] > 0 /\ call.args[1] % 2 = 1))

\* C10: a falsify_block call raises nothing, changes only the blocks at the
\* positions 0..len-1 that it names, and leaves the tamper marker in each of
\* those.
C10_OutOfRangeSkipped ==
    call.op = "falsify_block" =>
        LET bc == nodes[1]
            named == {idx \in Elems(call.args[1]) : 0 <= idx /\ idx < Len(bc.chain)}
        IN  /\ call.raised = "none"
            /\ \A k \in 1..Len(bc.chain) :
                 IF k - 1 \in named
                 THEN bc.chain[k].data = TamperMarker
                 ELSE bc.chain[k] = call.pre[1].chain[k]

\* The positions of a list of N replicas that the entries of indices name,
\* as self.nodes[idx] resolves them.
Targeted(indices, N) ==
    {Pos(indices[k], N) : k \in {j \in 1..Len(indices) : InRange(indices[j], N)}}

\* C11: a corrupt_nodes(indices, blocks) call, however it ends, leaves the
\* number of replicas as it was and every replica whose position indices does
\* not name exactly as it was (blocks, hashes, merkle_root), so that the
\* is_chain_valid() of each such replica is the same before and after; when
\* the replicas were all valid and indices is [0], every replica but
\* replica 0 is valid afterwards.
C11_UntargetedUnchanged ==
    (built /\ call.op = "corrupt_nodes") =>
        /\ Len(nodes) = Len(call.pre)
        /\ \A i \in 1..Len(nodes) :
             i \notin Targeted(call.args[1], Len(nodes)) =>
                /\ nodes[i] = call.pre[i]
                /\ is_chain_valid(nodes[i], startswith)
                     <=> is_chain_valid(call.pre[i], startswith)
        /\ (call.args[1] = <<0>>
              /\ \A i \in 1..Len(nodes) : is_chain_valid(call.pre[i], startswith)) =>
             \A i \in 2..Len(nodes) : is_chain_valid(nodes[i], startswith)

\* corrupt_nodes([0], ..) has run on a network of at least three valid
\* replicas: replica 0 is invalid and the others are valid.
C11_Witness ==
    /\ built /\ call.op = "corrupt_nodes" /\ call.args[1] = <<0>>
    /\ Len(nodes) >= 3
    /\ \A i \in 1..Len(nodes) : is_chain_valid(call.pre[i], startswith)
    /\ ~is_chain_valid(nodes[1], startswith)
    /\ \A i \in 2..Len(nodes) : is_chain_valid(nodes[i], startswith)

\* C12: a call of is_chain_valid() (exam.py and merkle9chain.py),
\* validate_all() or majority_vote() leaves every replica as it was, each
\* field of each block and the cached merkle_root included, and the same call
\* made again right after it returns what it returned.
C12_ValidationIsPure ==
    /\ call.op \in {"is_chain_valid", "validate_all", "majority_vote"} =>
         nodes = call.pre
    /\ (call.op = "is_chain_valid" /\ built) =>
         call.ret = is_chain_valid_report(nodes[call.args[1] + 1], startswith)
    /\ (call.op = "is_chain_valid" /\ ~built) =>
         call.ret = is_chain_valid9(nodes[1], startswith)
    /\ call.op = "validate_all" => call.ret = validate_all(nodes, startswith)
    /\ call.op = "majority_vote" => call.ret = majority_vote(nodes, startswith)

\* is_chain_valid() of exam.py has returned false on a chain of several
\* blocks for its stale merkle_root alone, and the root is still stale.
C12_Witness ==
    /\ built /\ call.op = "is_chain_valid"
    /\ Len(nodes[1].chain) >= 2
    /\ call.ret = [valid |-> FALSE, printed |-> <<(<<-1, "merkle">>)>>]
    /\ nodes[1].merkle_root # calculate_merkle_root(Hashes(nodes[1]))

MerkleOps == {"exam.calculate_merkle_root", "merkle9chain.calculate_merkle_root"}

\* The parent of two digests: the hash of their concatenation, in order.
Parent(a, b) == Hasher(a \o b)

\* The reduction written out for the lists of at most six digests: the last
\* element of an odd level is paired with itself.
ReferenceRoot(h) ==
    CASE Len(h) = 0 -> NoneVal
      [] Len(h) = 1 -> h[1]
      [] Len(h) = 2 -> Parent(h[1], h[2])
      [] Len(h) = 3 -> Parent(Parent(h[1], h[2]), Parent(h[3], h[3]))
      [] Len(h) = 4 -> Parent(Parent(h[1], h[2]), Parent(h[3], h[4]))
      [] Len(h) = 5 -> Parent(Parent(Parent(h[1], h[2]), Parent(h[3], h[4])),
                              Parent(Parent(h[5], h[5]), Parent(h[5], h[5])))
      [] Len(h) = 6 -> Parent(Parent(Parent(h[1], h[2]), Parent(h[3], h[4])),
                              Parent(Parent(h[5], h[6]), Parent(h[5], h[6])))

\* C13: for every list of digests, calculate_merkle_root of exam.py and of
\* merkle9chain.py return the root of the reference reduction: None for the
\* empty list, the element of a list of one, Hasher(a+b) for [a,b], the
\* root of [a,b,c,c] for [a,b,c] and in general the root of the list with
\* its last element repeated for a list of odd length above one, the padding
\* being applied at every odd level; the root of [a,b] differs from that of
\* [b,a] when a differs from b.
C13_MerkleReference ==
    call.op \in MerkleOps =>
        LET h == call.pre
            root(l) == IF call.op = "exam.calculate_merkle_root"
                       THEN calculate_merkle_root(l)
                       ELSE calculate_merkle_root9(l)
        IN  /\ call.ret = root(h)
            /\ Len(h) <= 6 => call.ret = ReferenceRoot(h)
            /\ h = <<>> => call.ret = NoneVal
            /\ Len(h) = 1 => call.ret = h[1]
            /\ Len(h) = 2 =>
                 /\ call.ret = Hasher(h[1] \o h[2])
                 /\ h[1] # h[2] => call.ret # root(<<h[2], h[1]>>)
            /\ (Len(h) > 1 /\ Len(h) % 2 = 1) =>
                 call.ret = root(Append(h, Last(h)))

\* calculate_merkle_root has run on a list of five digests, which is padded
\* at its first level and again at its second.
C13_Witness ==
    /\ call.op \in MerkleOps
    /\ Len(call.pre) = 5
    /\ call.pre[4] # call.pre[5]
    /\ call.ret = ReferenceRoot(call.pre)

\* C14: a call of calculate_merkle_root, of exam.py or of merkle9chain.py,
\* leaves the list of its caller with the length and the elements it had.
C14_CallerListUnchanged ==
    call.op \in MerkleOps => call.args[1] = call.pre

\* Every failing pair <<index, kind>> of a chain: for each block index
\* i >= 1, "hash" when the stored hash differs from the recomputed digest,
\* "link" when previous_hash differs from the stored hash of block i-1,
\* "prefix" when the stored hash lacks the difficulty prefix.
AllFindings(bc, orc) ==
    {<<i, "hash">> : i \in {k \in 1..(Len(bc.chain) - 1) :
        bc.chain[k + 1].hash # calculate_hash(bc.chain[k + 1])}}
    \cup {<<i, "link">> : i \in {k \in 1..(Len(bc.chain) - 1) :
        bc.chain[k + 1].previous_hash # bc.chain[k].hash}}
    \cup {<<i, "prefix">> : i \in {k \in 1..(Len(bc.chain) - 1) :
        ~HasPrefix(bc.chain[k + 1].hash, bc.difficulty, orc)}}

\* The place of a kind in the order of the checks.
KindRank(kind) == CASE kind = "hash" -> 1 [] kind = "link" -> 2 [] kind = "prefix" -> 3

\* A list of findings in the order of the blocks and, for one block, in the
\* order of the checks, without repetition.
InCheckOrder(found) ==
    \A k \in 1..(Len(found) - 1) :
        \/ found[k][1] < found[k + 1][1]
        \/ /\ found[k][1] = found[k + 1][1]
           /\ KindRank(found[k][2]) < KindRank(found[k + 1][2])

\* C15: the per-block findings that an is_chain_valid() call reports are all
\* the failing pairs <<index, kind>> of the chain, in the order of the
\* checks: the call does not stop at its first finding.  (exam.py reports
\* what it prints before it returns; merkle9chain.py its list invalid_blocks.)
C15_AllFindingsRecorded ==
    call.op = "is_chain_valid" =>
        LET found == IF built
                     THEN SelectSeq(call.ret.printed, LAMBDA f : f[2] # "merkle")
                     ELSE call.ret.invalid_blocks
        IN  /\ Elems(found) = AllFindings(nodes[1], startswith)
            /\ InCheckOrder(found)

\* C16: an add_block(data) call appends exactly one block, whose index is
\* the length the chain had, whose data is the data given, whose
\* previous_hash is the stored hash of the block that was last, and whose
\* stored hash is its recomputed digest and has the difficulty prefix; the
\* blocks the chain had, its difficulty and its cached merkle_root are as
\* they were.
C16_AddBlockAppends ==
    (built /\ call.op = "add_block") =>
        LET pre == call.pre[1]
            bc == nodes[1]
            b == Last(bc.chain)
        IN  /\ Len(bc.chain) = Len(pre.chain) + 1
            /\ b.index = Len(pre.chain)
            /\ b.data = call.args[2]
            /\ b.previous_hash = Last(pre.chain).hash
            /\ b.hash = calculate_hash(b)
            /\ HasPrefix(b.hash, bc.difficulty, startswith)
            /\ b.nonce > 0 =>
                 ~HasPrefix(calculate_hash([b EXCEPT !.nonce = @ - 1]),
                            bc.difficulty, startswith)
            /\ SubSeq(bc.chain, 1, Len(pre.chain)) = pre.chain
            /\ bc.merkle_root = pre.merkle_root
            /\ bc.difficulty = pre.difficulty

\* add_block has run at difficulty 1 on a chain of two blocks whose root was
\* cached and whose last block had been falsified: the new block links to the
\* falsified digest, and the search met a digest without the prefix first.
C16_Witness ==
    /\ built /\ call.op = "add_block"
    /\ Len(nodes[1].chain) = 3
    /\ nodes[1].difficulty = 1
    /\ call.pre[1].merkle_root # NoneVal
    /\ call.pre[1].chain[2].data = TamperMarker
    /\ ~HasPrefix(call.pre[1].chain[2].hash, 1, startswith)
    /\ call.args[2] = "tx"
    /\ nodes[1].chain[3].nonce > 0

\* C17: after a corrupt_nodes call that returned, in each replica it names,
\* each block at a position 0..len-1 that blocks_to_corrupt names holds the
\* tamper marker and a stored hash equal to its recomputed digest, every
\* other block is as it was, no block has changed its index, timestamp,
\* nonce or previous_hash, and the cached merkle_root is the Merkle root of
\* the current hashes; the chain has no hash-mismatch finding, and what
\* is_chain_valid() reports, if anything, is a link or a difficulty-prefix
\* finding, never a Merkle-root finding.
C17_CorruptionFrame ==
    (built /\ call.op = "corrupt_nodes" /\ call.raised = "none") =>
        \A r \in Targeted(call.args[1], Len(nodes)) :
            LET pre == call.pre[r]
                bc == nodes[r]
                named == {k + 1 : k \in {j \in Elems(call.args[2]) :
                                             0 <= j /\ j < Len(pre.chain)}}
            IN  /\ Len(bc.chain) = Len(pre.chain)
                /\ bc.difficulty = pre.difficulty
                /\ \A k \in 1..Len(bc.chain) :
                     /\ bc.chain[k].index = pre.chain[k].index
                     /\ bc.chain[k].timestamp = pre.chain[k].timestamp
                     /\ bc.chain[k].nonce = pre.chain[k].nonce
                     /\ bc.chain[k].previous_hash = pre.chain[k].previous_hash
                     /\ IF k \in named
                        THEN /\ bc.chain[k].data = TamperMarker
                             /\ bc.chain[k].hash = calculate_hash(bc.chain[k])
                        ELSE bc.chain[k] = pre.chain[k]
                /\ bc.merkle_root = calculate_merkle_root(Hashes(bc))
                /\ \A f \in AllFindings(bc, startswith) : f[2] \in {"link", "prefix"}
                /\ \A f \in Elems(is_chain_valid_report(bc, startswith).printed) :
                     f[2] \in {"link", "prefix"}

\* corrupt_nodes([0], [1, len]) has run on a chain of full length whose root
\* was stale: block 1 is falsified, the position past the end is skipped,
\* and is_chain_valid() reports more than one kind of finding over the
\* blocks.
C17_Witness ==
    /\ built /\ call.op = "corrupt_nodes" /\ call.raised = "none"
    /\ call.args = <<(<<0>>), (<<1, MaxChain>>)>>
    /\ Len(nodes[1].chain) = MaxChain
    /\ call.pre[1].merkle_root # calculate_merkle_root(Hashes(call.pre[1]))
    /\ Changed(call.pre[1], nodes[1]) = {2}
    /\ AllFindings(nodes[1], startswith) = {<<1, "prefix">>, <<2, "link">>}

\* C18 as claimed, in the form a finite run refutes: at every nonnegative
\* difficulty the loop of mine_block, whenever it runs, can return, some
\* digest having the required prefix (only then do the fair runs of the
\* loop return).
C18_MiningCanReturn == Mining => ENABLED MineHit

\* C18, amended: at a difficulty from 0 to the length of the digest, the loop
\* of mine_block, whenever it runs, eventually returns, so that the
\* construction of the genesis block and every add_block complete; at a
\* larger difficulty the loop never returns.
C18_MiningReturns ==
    /\ (Mining /\ net_difficulty <= DigestLen) ~> ~Mining
    /\ [](net_difficulty > DigestLen => Mining)

\* add_block has returned at the largest difficulty a digest can meet, after
\* a search that met a digest without the prefix first.
C18_Witness ==
    /\ call.op = "add_block"
    /\ net_difficulty = DigestLen
    /\ Last(nodes[1].chain).nonce > 0
    /\ Last(nodes[1].chain).hash = calculate_hash(Last(nodes[1].chain))

\* C19 as claimed: a replica whose is_chain_valid() is false before a
\* corrupt_nodes call on it has is_chain_valid() false after the call.
C19_InvalidStaysInvalid ==
    (built /\ call.op = "corrupt_nodes" /\ call.raised = "none") =>
        (~is_chain_valid(call.pre[1], startswith)
            => ~is_chain_valid(nodes[1], startswith))

\* C19, amended: a replica that has a per-block finding before a
\* corrupt_nodes call on it has one after the call, and its is_chain_valid()
\* is false after the call; a replica that has none (what is_chain_valid()
\* then returns rests on the cached merkle_root alone) has is_chain_valid()
\* true after the call exactly when the call leaves it without per-block
\* finding, the call having cached the root anew.
C19_FindingsStay ==
    (built /\ call.op = "corrupt_nodes" /\ call.raised = "none") =>
        IF ~NoFinding(call.pre[1])
        THEN ~NoFinding(nodes[1]) /\ ~is_chain_valid(nodes[1], startswith)
        ELSE is_chain_valid(nodes[1], startswith) <=> NoFinding(nodes[1])

\* corrupt_nodes has changed a block of a chain that had a per-block finding.
C19_Witness ==
    /\ built /\ call.op = "corrupt_nodes" /\ call.raised = "none"
    /\ ~NoFinding(call.pre[1])
    /\ Changed(call.pre[1], nodes[1]) # {}

\* C20: a corrupt_nodes call whose indices hold a position outside 0..N-1,
\* N being the number of replicas, changes no replica.
C20_AllOrNothing ==
    (/\ built /\ call.op = "corrupt_nodes"
     /\ \E k \in 1..Len(call.args[1]) :
          call.args[1][k] < 0 \/ call.args[1][k] >= Len(call.pre)) =>
        nodes = call.pre

====
